---- MODULE Spec2Model ----
(***************************************************************************)
(* A model of picture-service: the PictureService.upload_file pipeline     *)
(* (validate, store, resolve URL, build the response DTO), the POST        *)
(* /api/v1/pictures route handler in front of it, the cached storage       *)
(* client factory, the general health and info endpoints with the          *)
(* lifespan and the clock, the AppConfig object and the error classes.     *)
(*                                                                         *)
(* Specifications: Spec (the application), SpecService (upload_file called *)
(* directly), SpecUpload (one routed upload, every content type),          *)
(* SpecGeneral (health, info, lifespan, clock), SpecConfig (AppConfig),    *)
(* SpecUnits (error classes and the PictureService constructor).           *)
(*                                                                         *)
(* Python values are modelled as follows.                                  *)
(*   Optional[str]  a record [none, chars]: None, or a sequence of         *)
(*                  one-character strings                                  *)
(*   bytes          a sequence of byte values                              *)
(*   URL text       a record [scheme, host, path], i.e. scheme://host path *)
(*   exception      a record [cls, message, original_exception, args]      *)
(*   datetime       a record [kind, t]: aware or naive, at clock tick t    *)
(*   f-string       a record [text, args, inner]: the literal text, the    *)
(*                  plain values and the message of the exception that are *)
(*                  formatted into it                                      *)
(***************************************************************************)
EXTENDS Integers, Sequences, FiniteSets, TLC

\* ------------------------------------------------------------------ bounds
\* Number of requests (or direct service calls) that can be in flight at once.
NumReqs == 2
\* Size of the non-empty file, in bytes.
MaxContentLen == 1
\* How far the clock runs, in ticks of twelve hours.
MaxTicks == 2
\* Longest string handed to check_not_whitespace_only.
MaxStrLen == 2

Reqs == 1..NumReqs

\* ------------------------------------------------------------ Python values
NoneVal == [none |-> TRUE, chars |-> <<>>]
Str(cs) == [none |-> FALSE, chars |-> cs]

\* Python truthiness of an Optional[str]: None and '' are falsy.
Truthy(v) == ~v.none /\ v.chars # <<>>

Whitespace == {" ", "\t", "\n"}

\* str.isspace(): at least one character and all of them whitespace.
isspace(cs) == cs # <<>> /\ \A i \in 1..Len(cs) : cs[i] \in Whitespace

\* File contents: the empty file and a file of MaxContentLen bytes b"xx..".
AllContents == {<<>>, [i \in 1..MaxContentLen |-> 120]}

\* ------------------------------------------------------------- exceptions
Msg(text) == [text |-> text, args |-> <<>>, inner |-> <<>>]
\* f"{text}{err}" with the plain values args formatted in as well.
MsgF(text, args, err) == [text |-> text, args |-> args, inner |-> <<err.message>>]

RECURSIVE MsgContains(_, _)
\* text in str(error)
MsgContains(m, text) ==
    \/ m.text = text
    \/ m.inner # <<>> /\ MsgContains(m.inner[1], text)

\* The classes an exception is an instance of (its own class and its bases).
Mro(cls) ==
    CASE cls = "PictureError"       -> {"PictureError", "Exception"}
      [] cls = "PictureUploadError" -> {"PictureUploadError", "PictureError", "Exception"}
      [] cls = "InvalidInputError"  -> {"InvalidInputError", "PictureError", "Exception"}
      [] cls = "FileStorageError"   -> {"FileStorageError", "Exception"}
      [] cls = "ValueError"         -> {"ValueError", "Exception"}
      [] cls = "ValidationError"    -> {"ValidationError", "ValueError", "Exception"}
      [] cls = "AttributeError"     -> {"AttributeError", "Exception"}
      [] cls = "OSError"            -> {"OSError", "Exception"}
      [] OTHER                      -> {cls, "Exception"}

IsInstance(err, cls) == cls \in Mro(err.cls)

\* An exception raised outside this repository (storage client, file object).
Raise(cls, text) ==
    [cls |-> cls, message |-> Msg(text), original_exception |-> <<>>,
     args |-> <<Msg(text)>>]

\* str(exception): the single constructor argument, '' when there is none.
str_exception(err) == IF Len(err.args) = 1 THEN err.args[1] ELSE Msg("")

\* PictureError.__init__ without the call of super().__init__(message).
PictureError_without_super_init(message, original_exception) ==
    [cls |-> "PictureError", message |-> message,
     original_exception |-> original_exception, args |-> <<>>]

\* errors.py: message and the optional wrapped cause (<<>> is None); the
\* message is also the exception's single argument.
PictureError(message, original_exception) ==
    [cls |-> "PictureError", message |-> message,
     original_exception |-> original_exception, args |-> <<message>>]

PictureUploadError(message, original_exception) ==
    [PictureError(message, original_exception) EXCEPT !.cls = "PictureUploadError"]

InvalidInputError(message, original_exception) ==
    [PictureError(message, original_exception) EXCEPT !.cls = "InvalidInputError"]

\* ---------------------------------------------------------------- schemas
MIN_LENGTH == 1

\* check_not_whitespace_only rejecting the empty string only.
check_not_whitespace_only_empty_only(value) ==
    [raised |-> ~value.none /\ value.chars = <<>>,
     value  |-> value]

\* schemas.py check_not_whitespace_only: raises ValueError for a str that is
\* empty or all whitespace, and returns every other value as it is.
check_not_whitespace_only(value) ==
    [raised |-> ~value.none /\ (value.chars = <<>> \/ isspace(value.chars)),
     value  |-> value]

\* A pydantic field declared  str = Field(..., min_length=MIN_LENGTH),
\* after its mode='before' validator ran: a str of at least MIN_LENGTH.
StrFieldValid(value) ==
    /\ ~check_not_whitespace_only(value).raised
    /\ ~value.none
    /\ Len(value.chars) >= MIN_LENGTH

Url(scheme, host, path) == [scheme |-> scheme, host |-> host, path |-> path]

\* Lower-casing of the host names the model uses.
Lower(host) == IF host = "H" THEN "h" ELSE host

\* pydantic HttpUrl accepts http and https URLs that name a host.
HttpUrlValid(url) == url.scheme \in {"http", "https"} /\ url.host # ""

\* The HttpUrl value built from URL text: the host is lower-cased and an
\* empty path becomes "/".
HttpUrl(url) ==
    [scheme |-> url.scheme, host |-> Lower(url.host),
     path |-> IF url.path = "" THEN "/" ELSE url.path]

\* UploadResponseDTO(...) validates: original_filename, object_name and etag
\* as non-blank str, file_url as HttpUrl, size as int >= 0.
UploadResponseDTOValid(original_filename, object_name, file_url, size, etag) ==
    /\ StrFieldValid(original_filename)
    /\ StrFieldValid(object_name)
    /\ HttpUrlValid(file_url)
    /\ size >= 0
    /\ StrFieldValid(etag)

UploadResponseDTO(original_filename, object_name, file_url, size, etag) ==
    [original_filename |-> original_filename,
     object_name       |-> object_name,
     file_url          |-> HttpUrl(file_url),
     size              |-> size,
     etag              |-> etag]

\* HealthCheckDTO(status=...) validates status as a non-blank str.
HealthCheckDTOValid(status) == StrFieldValid(status)

HealthCheckDTO(status) == [status |-> status]

\* ------------------------------------------------- outcomes of a call
Returned(dto) == [kind |-> "returned", dto |-> dto]
Raised(exc)   == [kind |-> "raised", exc |-> exc]

\* --------------------------------------------- PictureService.upload_file
\* SimpleFileData(content_bytes, size, filename, content_type)
SimpleFileData(file_content, original_filename, content_type) ==
    [content_bytes |-> file_content,
     size          |-> Len(file_content),
     filename      |-> original_filename,
     content_type  |-> content_type]

\* upload_file_validate checking the bucket before the content and the name.
upload_file_validate_bucket_first(file_content, original_filename, target_bucket) ==
    IF ~Truthy(target_bucket)
    THEN <<InvalidInputError(Msg("Target bucket must be specified."), <<>>)>>
    ELSE IF file_content = <<>>
    THEN <<InvalidInputError(Msg("Cannot upload an empty file."), <<>>)>>
    ELSE IF ~Truthy(original_filename)
    THEN <<InvalidInputError(Msg("Original filename is required for upload."), <<>>)>>
    ELSE <<>>

\* upload_file_validate without its last check.
upload_file_validate_no_bucket(file_content, original_filename, target_bucket) ==
    IF file_content = <<>>
    THEN <<InvalidInputError(Msg("Cannot upload an empty file."), <<>>)>>
    ELSE IF ~Truthy(original_filename)
    THEN <<InvalidInputError(Msg("Original filename is required for upload."), <<>>)>>
    ELSE <<>>

\* Step 1, input validation: <<>> when the input passes, else <<the error>>.
upload_file_validate(file_content, original_filename, target_bucket) ==
    IF file_content = <<>>
    THEN <<InvalidInputError(Msg("Cannot upload an empty file."), <<>>)>>
    ELSE IF ~Truthy(original_filename)
    THEN <<InvalidInputError(Msg("Original filename is required for upload."), <<>>)>>
    ELSE IF ~Truthy(target_bucket)
    THEN <<InvalidInputError(Msg("Target bucket must be specified."), <<>>)>>
    ELSE <<>>

\* upload_file_upload_except without the clause for ValueError.
upload_file_upload_except_no_value_error(err) ==
    IF IsInstance(err, "FileStorageError")
    THEN PictureUploadError(
             MsgF("Storage service failed during upload: ", <<>>, err), <<err>>)
    ELSE PictureUploadError(
             MsgF("Unexpected error during storage upload step: ", <<>>, err), <<err>>)

\* Step 2, the except clauses around file_storage_service.upload_file.
upload_file_upload_except(err) ==
    IF IsInstance(err, "FileStorageError")
    THEN PictureUploadError(
             MsgF("Storage service failed during upload: ", <<>>, err), <<err>>)
    ELSE IF IsInstance(err, "ValueError")
    THEN InvalidInputError(
             MsgF("Invalid file provided for upload: ", <<>>, err), <<err>>)
    ELSE PictureUploadError(
             MsgF("Unexpected error during storage upload step: ", <<>>, err), <<err>>)

\* upload_file_url_except losing the cause.
upload_file_url_except_no_cause(err) ==
    IF IsInstance(err, "FileStorageError")
    THEN PictureUploadError(
             MsgF("Failed to get file URL from storage service ", <<>>, err), <<>>)
    ELSE PictureUploadError(
             MsgF("Unexpected error getting file URL: ", <<>>, err), <<>>)

\* Step 5, the except clauses around file_storage_service.get_file_url.
upload_file_url_except(err) ==
    IF IsInstance(err, "FileStorageError")
    THEN PictureUploadError(
             MsgF("Failed to get file URL from storage service ", <<>>, err), <<err>>)
    ELSE PictureUploadError(
             MsgF("Unexpected error getting file URL: ", <<>>, err), <<err>>)

\* upload_file_return passing the object key where the ETag belongs.
upload_file_return_key_as_etag(original_filename, object_name, file_url, file_size, etag) ==
    IF UploadResponseDTOValid(original_filename, object_name, file_url, file_size, etag)
    THEN Returned(UploadResponseDTO(original_filename, object_name, file_url,
                                    file_size, object_name))
    ELSE Raised(Raise("ValidationError", "validation errors for UploadResponseDTO"))

\* Step 6, return UploadResponseDTO(...): the constructor is outside every
\* try block, so its ValidationError leaves upload_file as it is.
upload_file_return(original_filename, object_name, file_url, file_size, etag) ==
    IF UploadResponseDTOValid(original_filename, object_name, file_url, file_size, etag)
    THEN Returned(UploadResponseDTO(original_filename, object_name, file_url,
                                    file_size, etag))
    ELSE Raised(Raise("ValidationError", "validation errors for UploadResponseDTO"))

\* ------------------------------------------------- the storage client
\* The external FileStorageService: what its two operations can answer.
StorageErrorClasses == {"FileStorageError", "ValueError", "RuntimeError"}

\* (object_name, etag, file_size) triples upload_file can return for file_data:
\* the stored size with a proper or a blank ETag, a size that is off by one,
\* and a negative size.
UploadResults(file_data) ==
    {[object_name |-> Str(<<"k">>), etag |-> Str(<<"e">>), size |-> file_data.size],
     [object_name |-> Str(<<"k">>), etag |-> Str(<<" ">>), size |-> file_data.size],
     [object_name |-> Str(<<"k">>), etag |-> Str(<<"e">>), size |-> file_data.size + 1],
     [object_name |-> Str(<<"k">>), etag |-> Str(<<"e">>), size |-> -1]}

\* URL texts get_file_url can return: an http URL that HttpUrl rewrites, and
\* a URL that is no http URL.
UrlValues == {Url("http", "H", ""), Url("ftp", "h", "/k")}

\* ------------------------------------------------------------------ state
VARIABLES
    reqs,                   \* per request slot: position and local variables
    completed,              \* <<>> or <<the most recently answered call or request>>
    file_storage_provider,  \* app_config.file_storage_provider
    cache,                  \* lru_cache of get_file_storage_service: <<>> or <<instance>>
    constructed,            \* number of storage clients constructed so far
    svcInstances,           \* storage instances handed to a PictureService
    start_time,             \* app.state.start_time
    lifecycle,              \* "created", "running" (after startup) or "stopped"
    now,                    \* the wall clock, datetime.now(timezone.utc)
    environ,                \* os.environ: variable name -> <<>> or <<value>>
    app_config              \* the AppConfig instance built from the environment

vars == <<reqs, completed, file_storage_provider, cache, constructed,
          svcInstances, start_time, lifecycle, now, environ, app_config>>

Idle ==
    [pc |-> "idle", entry |-> "none", file_content |-> <<>>,
     original_filename |-> NoneVal, content_type |-> NoneVal,
     target_bucket |-> NoneVal, calls |-> <<>>]

\* One entry of a request's call log. file_data, triple, url and raised are
\* <<>> or a one-element sequence.
Call(op, bucket, object_name, file_data) ==
    [op |-> op, bucket |-> bucket, object_name |-> object_name,
     file_data |-> file_data, triple |-> <<>>, url |-> <<>>, raised |-> <<>>]

\* The last entry of a call log answered: a triple, a URL, or an exception.
Answered(calls, field, value) ==
    [calls EXCEPT ![Len(calls)] = [@ EXCEPT ![field] = <<value>>]]

CountCalls(calls, op) == Cardinality({i \in 1..Len(calls) : calls[i].op = op})

\* Index of the first entry of a call log for op (0 when there is none).
FirstCall(calls, op) ==
    IF \E i \in 1..Len(calls) : calls[i].op = op
    THEN CHOOSE i \in 1..Len(calls) :
             calls[i].op = op /\ \A j \in 1..(i - 1) : calls[j].op # op
    ELSE 0

\* What the caller of upload_file (or the HTTP client) observes when the call
\* in slot r ends: its inputs, its call log, its outcome and, for a request
\* that came through the route, the HTTP response.
Finished(slot, calls, outcome, http) ==
    [entry |-> slot.entry, file_content |-> slot.file_content,
     original_filename |-> slot.original_filename,
     content_type |-> slot.content_type, target_bucket |-> slot.target_bucket,
     calls |-> calls, outcome |-> outcome, http |-> http]

\* ----------------------------------------------------------- route layer
\* routers/pictures.py: the bucket every routed upload goes to.
uploader_user_id == Str(<<"t", "e", "s", "t">>)

\* The except clause around file.read() and the empty-file check of upload:
\* it catches every Exception raised in the try block, the handler's own
\* InvalidInputError included, and raises a PictureError from it.
upload_read_except(filename, err) ==
    PictureError(MsgF("Failed to read uploaded file {filename}: ", <<filename>>, err),
                 <<err>>)

\* What the try block of upload ends with for the outcome of file.read():
\* <<>> when contents were read and are not empty, else <<the PictureError>>.
upload_read(filename, read) ==
    IF read.raised
    THEN <<upload_read_except(filename, read.exc)>>
    ELSE IF read.contents = <<>>
    THEN <<upload_read_except(filename,
               InvalidInputError(Msg("Cannot upload an empty file."), <<>>))>>
    ELSE <<>>

\* http_response of a route declared without status_code=HTTP_201_CREATED.
http_response_default_status(outcome) ==
    IF outcome.kind = "returned"
    THEN [status |-> 200, body |-> outcome.dto]
    ELSE [status |-> 500, body |-> [text |-> "Internal Server Error"]]

\* main.py create_app registers no exception handler, so the application
\* answers a returned DTO with the route's status_code and its JSON, and any
\* exception leaving the handler or a dependency with the server-error
\* response.
http_response(outcome) ==
    IF outcome.kind = "returned"
    THEN [status |-> 201, body |-> outcome.dto]
    ELSE [status |-> 500, body |-> [text |-> "Internal Server Error"]]

\* ------------------------------------------------------------ dependencies
ABSENT == "<no such attribute>"
ProviderValues == {"minio", "aws", ABSENT}

\* Outcomes of MinioService(MinioConfig()).
ConstructOutcomes ==
    {[raised |-> FALSE, exc |-> Raise("None", "")],
     [raised |-> TRUE, exc |-> Raise("FileStorageError", "cannot connect")],
     [raised |-> TRUE, exc |-> Raise("ValueError", "bad configuration")]}

\* The body of get_file_storage_service for the configured provider and the
\* outcome of constructing the client: "ok" or the exception it raises. The
\* attribute is read before the try block.
get_file_storage_service(provider, construct) ==
    IF provider = ABSENT
    THEN Raised(Raise("AttributeError",
                      "'AppConfig' object has no attribute 'file_storage_provider'"))
    ELSE IF provider = "minio"
    THEN IF construct.raised
         THEN Raised(PictureError(
                  MsgF("Failed to initialize storage service provider {storage_provider}': ",
                       <<provider>>, construct.exc),
                  <<construct.exc>>))
         ELSE [kind |-> "ok"]
    ELSE LET err == Raise("ValueError", "Unsupported file storage provider:{storage_provider}")
         IN  Raised(PictureError(
                 MsgF("Failed to initialize storage service provider {storage_provider}': ",
                      <<provider>>, err),
                 <<err>>))

\* lru_cache: the value stored for the (only) key once a call of the wrapped
\* function has returned; a key already stored is kept.
lru_cache_store(cached, result) == IF cached = <<>> THEN <<result>> ELSE cached

\* ---------------------------------------------------------------- general
\* health reporting the service as down until the lifespan has started.
health_down_before_startup ==
    IF lifecycle = "created"
    THEN [status |-> 503, body |-> HealthCheckDTO(Str(<<"D", "O", "W", "N">>))]
    ELSE [status |-> 200, body |-> HealthCheckDTO(Str(<<"U", "P">>))]

\* routes.py health: HealthCheckDTO(status='UP') answered with HTTP_200_OK.
health ==
    IF HealthCheckDTOValid(Str(<<"U", "P">>))
    THEN [status |-> 200, body |-> HealthCheckDTO(Str(<<"U", "P">>))]
    ELSE [status |-> 500, body |-> [text |-> "Internal Server Error"]]

\* ------------------------------------------------------------ GET /api/info
\* A Python str held in a configuration field, as a value of a str DTO field.
StrOf(s) == IF s = "" THEN Str(<<>>) ELSE Str(<<s>>)

\* bool(start_time): None and '' are falsy, datetimes and other strings truthy.
start_time_truthy(st) == st.kind \in {"aware", "naive", "invalid"}

\* isinstance(start_time, datetime).
start_time_is_datetime(st) == st.kind \in {"aware", "naive"}

\* An uptime that is one of the handler's fixed strings.
UptimeText(text) ==
    [kind |-> "text", text |-> text, days |-> 0, hours |-> 0, minutes |-> 0,
     seconds |-> 0]

\* str(timedelta) of a difference of delta clock ticks of twelve hours:
\* '[D day[s], ]H:MM:SS' with 0 <= H:MM:SS < 24 h and D possibly negative.
str_timedelta(delta) ==
    LET secs == delta * 43200
        rest == secs % 86400
    IN  [kind |-> "duration", text |-> "", days |-> (secs - rest) \div 86400,
         hours |-> rest \div 3600, minutes |-> (rest % 3600) \div 60,
         seconds |-> rest % 60]

\* InfoDTO validation: name and version non-blank, uptime of length >= 1.
InfoDTOValid(name, version, uptime) ==
    /\ StrFieldValid(name)
    /\ StrFieldValid(version)
    /\ (uptime.kind = "text" => uptime.text # "")

InfoDTO(name, version, uptime) ==
    [name |-> name, version |-> version, uptime |-> uptime]

\* return InfoDTO(name=..., version=..., uptime=...): the DTO, or pydantic's
\* ValidationError.
version_return(name, ver, uptime) ==
    IF InfoDTOValid(name, ver, uptime)
    THEN Returned(InfoDTO(name, ver, uptime))
    ELSE Raised(Raise("ValidationError", "validation errors for InfoDTO"))

\* version computing the uptime as start_time minus now.
version_delta_reversed(st, clock, name, ver) ==
    IF start_time_truthy(st) /\ start_time_is_datetime(st)
    THEN IF st.kind = "naive"
         THEN Raised(Raise("TypeError",
                           "can't subtract offset-naive and offset-aware datetimes"))
         ELSE version_return(name, ver, str_timedelta(st.t - clock))
    ELSE IF start_time_truthy(st)
    THEN version_return(name, ver,
                        UptimeText("Error: Invalid start_time format in app state"))
    ELSE version_return(name, ver, UptimeText("Not yet started"))

\* version without its elif branch: every non-datetime is 'Not yet started'.
version_no_elif(st, clock, name, ver) ==
    IF start_time_truthy(st) /\ start_time_is_datetime(st)
    THEN IF st.kind = "naive"
         THEN Raised(Raise("TypeError",
                           "can't subtract offset-naive and offset-aware datetimes"))
         ELSE version_return(name, ver, str_timedelta(clock - st.t))
    ELSE version_return(name, ver, UptimeText("Not yet started"))

\* routes.py version: the outcome of GET /api/info for the start_time held in
\* the application state (st), the clock, and the configured name and version.
\* Subtracting a naive datetime from the aware now() raises TypeError.
version(st, clock, name, ver) ==
    IF start_time_truthy(st) /\ start_time_is_datetime(st)
    THEN IF st.kind = "naive"
         THEN Raised(Raise("TypeError",
                           "can't subtract offset-naive and offset-aware datetimes"))
         ELSE version_return(name, ver, str_timedelta(clock - st.t))
    ELSE IF start_time_truthy(st)
    THEN version_return(name, ver,
                        UptimeText("Error: Invalid start_time format in app state"))
    ELSE version_return(name, ver, UptimeText("Not yet started"))

\* The HTTP response of a general endpoint: status 200 with the DTO, or the
\* 500 of an unhandled exception.
general_response(outcome) ==
    IF outcome.kind = "returned"
    THEN [status |-> 200, body |-> outcome.dto]
    ELSE [status |-> 500, body |-> [text |-> "Internal Server Error"]]

\* ----------------------------------------------------------------- inputs
Filenames == {NoneVal, Str(<<>>), Str(<<" ">>), Str(<<"a">>)}
Buckets == {NoneVal, Str(<<>>), Str(<<"b">>)}
ContentTypes == {Str(<<"image/png">>)}

\* Content types a client can send with the file part: none at all, an image
\* type, a type that is no image type, an empty one.
AllContentTypes ==
    {NoneVal, Str(<<>>), Str(<<"image/png">>), Str(<<"application/invalid">>)}

\* A multipart file part always carries a non-empty filename.
RouteFilenames == {f \in Filenames : Truthy(f)}

\* Outcomes of await file.read().
ReadOutcomes ==
    {[raised |-> FALSE, contents |-> c, exc |-> Raise("None", "")] : c \in AllContents}
    \cup {[raised |-> TRUE, contents |-> <<>>, exc |-> Raise("OSError", "read failed")]}

\* Outcomes of file_storage_service.get_file_url.
UrlOutcomes ==
    {[raised |-> FALSE, url |-> u, exc |-> Raise("None", "")] : u \in UrlValues}
    \cup {[raised |-> TRUE, url |-> Url("", "", ""), exc |-> Raise(c, "url lookup failed")] :
             c \in StorageErrorClasses}

\* The value None where a storage service is expected (instances count from 1).
NoStorageService == 0

\* PictureService.__init__ without its dependency check.
PictureService_unchecked(file_storage_service) ==
    [kind |-> "ok", file_storage_service |-> file_storage_service]

\* PictureService.__init__: ValueError without a storage service, otherwise
\* the service keeps the storage service it is given.
PictureService(file_storage_service) ==
    IF file_storage_service = NoStorageService
    THEN Raised(Raise("ValueError", "FileStorageService dependency is required."))
    ELSE [kind |-> "ok", file_storage_service |-> file_storage_service]

\* dependencies.py get_picture_service: a PictureService around the resolved
\* storage client.
get_picture_service(file_storage_service) == PictureService(file_storage_service)

\* ---------------------------------------------------------- configuration
\* The environment variables AppConfig.__post_init__ reads.
EnvNames ==
    {"API_VERSION", "NAME", "DESCRIPTION", "VERSION", "LOG_LEVEL",
     "MINIO_ENDPOINT", "MINIO_ACCESS_KEY", "MINIO_SECRET_KEY", "MINIO_BUCKET",
     "MINIO_USE_SSL", "MONGO_URI", "MONGO_DB_NAME", "MONGO_COLLECTION_NAME",
     "SWAGGER_ENABLED", "FILE_STORAGE_PROVIDER"}

\* An environment in which none of the variables is set.
NoEnviron == [n \in EnvNames |-> <<>>]

\* os.getenv(name, default).
getenv(env, name, default) == IF env[name] = <<>> THEN default ELSE env[name][1]

\* cba_core_lib get_bool_from_env(name, default).
get_bool_from_env(env, name, default) ==
    IF env[name] = <<>> THEN default ELSE env[name][1] \in {"true", "1", "yes"}

\* AppConfig(): the fields __post_init__ sets from the environment.
AppConfig(env) ==
    [api_version |-> getenv(env, "API_VERSION", "v1"),
     name |-> getenv(env, "NAME", "picture-service"),
     description |-> getenv(env, "DESCRIPTION", "REST API Service for Pictures"),
     version |-> getenv(env, "VERSION", "1.0.0"),
     log_level |-> getenv(env, "LOG_LEVEL", "INFO"),
     minio_endpoint |-> getenv(env, "MINIO_ENDPOINT", "localhost:9000"),
     minio_access_key |-> getenv(env, "MINIO_ACCESS_KEY", "admin"),
     minio_secret_key |-> getenv(env, "MINIO_SECRET_KEY", "minio12345"),
     minio_bucket |-> getenv(env, "MINIO_BUCKET", "picture-service-data"),
     minio_use_ssl |-> get_bool_from_env(env, "MINIO_USE_SSL", FALSE),
     mongo_uri |-> getenv(env, "MONGO_URI", "mongodb://localhost:27017"),
     mongo_db_name |-> getenv(env, "MONGO_DB_NAME", "file_metadata"),
     mongo_collection_name |-> getenv(env, "MONGO_COLLECTION_NAME", "uploads")]

\* The configuration fields the rest of the service and its tests read.
ConfigFields ==
    {"api_version", "name", "description", "version", "log_level",
     "swagger_enabled", "file_storage_provider"}

\* Reading app_config.<field>: the value, or AttributeError when the instance
\* has no such attribute.
AppConfig_getattr(cfg, field) ==
    IF field \in DOMAIN cfg
    THEN Returned(cfg[field])
    ELSE Raised(Raise("AttributeError", "'AppConfig' object has no attribute"))

\* Assignment on a dataclass that is not frozen: the attribute is set.
AppConfig_setattr_not_frozen(cfg, field, value) ==
    [outcome |-> [kind |-> "assigned"], config |-> (field :> value) @@ cfg]

\* app_config.<field> = value on the frozen dataclass: __setattr__ raises
\* FrozenInstanceError for every attribute name and sets nothing.
AppConfig_setattr(cfg, field, value) ==
    [outcome |-> Raised(Raise("FrozenInstanceError", "cannot assign to field")),
     config |-> cfg]

\* ------------------------------------------------------------------- Init
Init ==
    /\ reqs = [r \in Reqs |-> Idle]
    /\ completed = <<>>
    /\ file_storage_provider \in ProviderValues
    /\ cache = <<>>
    /\ constructed = 0
    /\ svcInstances = {}
    /\ start_time = [kind |-> "absent", t |-> 0]
    /\ lifecycle = "created"
    /\ now = 0
    /\ environ = NoEnviron
    /\ app_config = AppConfig(environ)

\* ------------------------------------------------- PictureService actions
\* The call in slot r ends with outcome: the caller observes it and the slot
\* is free again.
Finish(r, slot, calls, outcome) ==
    /\ completed' = <<Finished(slot, calls, outcome,
                               IF slot.entry = "route"
                               THEN <<http_response(outcome)>> ELSE <<>>)>>
    /\ reqs' = [reqs EXCEPT ![r] = Idle]

\* upload_file_get_file_url with its two arguments swapped.
upload_file_get_file_url_swapped(target_bucket, object_name) ==
    Call("storage.get_file_url", object_name, target_bucket, <<>>)

\* The arguments upload_file passes to get_file_url.
upload_file_get_file_url(target_bucket, object_name) ==
    Call("storage.get_file_url", target_bucket, object_name, <<>>)

\* file_data built with a fixed content type instead of the caller's.
file_data_of_fixed_content_type(slot) ==
    SimpleFileData(slot.file_content, slot.original_filename,
                   Str(<<"application/octet-stream">>))

\* The file_data upload_file builds from the arguments held in a slot.
file_data_of(slot) ==
    SimpleFileData(slot.file_content, slot.original_filename, slot.content_type)

\* upload_file starting the storage upload without validating its input.
EnterUploadFile_store_first(r, slot) ==
    LET calls == Append(slot.calls,
                        Call("PictureService.upload_file", slot.target_bucket,
                             NoneVal, <<>>))
    IN  /\ reqs' = [reqs EXCEPT ![r] =
               [slot EXCEPT !.pc = "uploading",
                            !.calls = Append(calls,
                                Call("storage.upload_file", slot.target_bucket,
                                     NoneVal, <<file_data_of(slot)>>))]]
        /\ UNCHANGED completed

\* upload_file from its entry to its first await: validation, then the
\* storage upload is started.
EnterUploadFile(r, slot) ==
    LET calls == Append(slot.calls,
                        Call("PictureService.upload_file", slot.target_bucket,
                             NoneVal, <<>>))
        err == upload_file_validate(slot.file_content, slot.original_filename,
                                    slot.target_bucket)
        file_data == file_data_of(slot)
    IN  IF err # <<>>
        THEN Finish(r, slot, calls, Raised(err[1]))
        ELSE /\ reqs' = [reqs EXCEPT ![r] =
                    [slot EXCEPT !.pc = "uploading",
                                 !.calls = Append(calls,
                                     Call("storage.upload_file", slot.target_bucket,
                                          NoneVal, <<file_data>>))]]
             /\ UNCHANGED completed

\* A caller (a unit test) calls upload_file on a PictureService directly.
CallUploadFile(r, file_content, original_filename, content_type, target_bucket) ==
    /\ reqs[r].pc = "idle"
    /\ EnterUploadFile(r, [Idle EXCEPT !.entry = "direct",
                                       !.file_content = file_content,
                                       !.original_filename = original_filename,
                                       !.content_type = content_type,
                                       !.target_bucket = target_bucket])
    /\ UNCHANGED <<file_storage_provider, cache, constructed, svcInstances,
                   start_time, lifecycle>>
    /\ UNCHANGED <<now, environ, app_config>>

\* A failed storage upload followed by a call of get_file_url all the same.
StorageUploadRaises_then_url(r, cls) ==
    /\ reqs[r].pc = "uploading"
    /\ LET err == Raise(cls, "storage upload failed")
           calls == Append(Answered(reqs[r].calls, "raised", err),
                           upload_file_get_file_url(reqs[r].target_bucket, NoneVal))
       IN  Finish(r, reqs[r], calls, Raised(upload_file_upload_except(err)))
    /\ UNCHANGED <<file_storage_provider, cache, constructed, svcInstances,
                   start_time, lifecycle>>
    /\ UNCHANGED <<now, environ, app_config>>

\* A failed storage upload that is tried once more before giving up.
StorageUploadRaises_retry(r, cls) ==
    /\ reqs[r].pc = "uploading"
    /\ LET err == Raise(cls, "storage upload failed")
           calls == Answered(reqs[r].calls, "raised", err)
       IN  IF CountCalls(calls, "storage.upload_file") = 1
           THEN /\ reqs' = [reqs EXCEPT ![r] =
                       [@ EXCEPT !.calls = Append(calls,
                           Call("storage.upload_file", reqs[r].target_bucket,
                                NoneVal, <<file_data_of(reqs[r])>>))]]
                /\ UNCHANGED completed
           ELSE Finish(r, reqs[r], calls, Raised(upload_file_upload_except(err)))
    /\ UNCHANGED <<file_storage_provider, cache, constructed, svcInstances,
                   start_time, lifecycle>>
    /\ UNCHANGED <<now, environ, app_config>>

\* await file_storage_service.upload_file(...) raises.
StorageUploadRaises(r, cls) ==
    /\ reqs[r].pc = "uploading"
    /\ LET err == Raise(cls, "storage upload failed")
       IN  Finish(r, reqs[r], Answered(reqs[r].calls, "raised", err),
                  Raised(upload_file_upload_except(err)))
    /\ UNCHANGED <<file_storage_provider, cache, constructed, svcInstances,
                   start_time, lifecycle>>
    /\ UNCHANGED <<now, environ, app_config>>

\* upload_file keeping the filename in a place shared by all requests: the
\* response is built with the filename of the latest request being uploaded.
StorageUploadReturns_shared_filename(r, res, url) ==
    /\ reqs[r].pc = "uploading"
    /\ LET slot == reqs[r]
           uploading == {q \in Reqs : reqs[q].pc = "uploading"}
           latest == CHOOSE q \in uploading : \A p \in uploading : p <= q
           calls == Append(Answered(slot.calls, "triple", res),
                           upload_file_get_file_url(slot.target_bucket, res.object_name))
       IN  IF url.raised
           THEN Finish(r, slot, Answered(calls, "raised", url.exc),
                       Raised(upload_file_url_except(url.exc)))
           ELSE Finish(r, slot, Answered(calls, "url", url.url),
                       upload_file_return(reqs[latest].original_filename,
                                          res.object_name, url.url, res.size, res.etag))
    /\ UNCHANGED <<file_storage_provider, cache, constructed, svcInstances,
                   start_time, lifecycle>>
    /\ UNCHANGED <<now, environ, app_config>>

\* await file_storage_service.upload_file(...) returns res; get_file_url is
\* then called (no await: nothing interleaves) and answers url, and the
\* response DTO is built.
StorageUploadReturns(r, res, url) ==
    /\ reqs[r].pc = "uploading"
    /\ LET slot == reqs[r]
           calls == Append(Answered(slot.calls, "triple", res),
                           upload_file_get_file_url(slot.target_bucket, res.object_name))
       IN  IF url.raised
           THEN Finish(r, slot, Answered(calls, "raised", url.exc),
                       Raised(upload_file_url_except(url.exc)))
           ELSE Finish(r, slot, Answered(calls, "url", url.url),
                       upload_file_return(slot.original_filename, res.object_name,
                                          url.url, res.size, res.etag))
    /\ UNCHANGED <<file_storage_provider, cache, constructed, svcInstances,
                   start_time, lifecycle>>
    /\ UNCHANGED <<now, environ, app_config>>

\* ------------------------------------------------------ application actions
\* POST /api/v1/pictures arrives: the dependency get_file_storage_service is
\* looked up in its lru_cache (in a worker thread). On a hit the cached client
\* goes to get_picture_service; on a miss the wrapped function is called.
PostPicture(r) ==
    /\ lifecycle # "stopped"
    /\ reqs[r].pc = "idle"
    /\ IF cache # <<>>
       THEN /\ reqs' = [reqs EXCEPT ![r] =
                   [Idle EXCEPT !.pc = "handler", !.entry = "route"]]
            /\ svcInstances' = svcInstances
                                \cup {get_picture_service(cache[1]).file_storage_service}
       ELSE /\ reqs' = [reqs EXCEPT ![r] =
                   [Idle EXCEPT !.pc = "constructing", !.entry = "route"]]
            /\ UNCHANGED svcInstances
    /\ UNCHANGED <<completed, file_storage_provider, cache, constructed,
                   start_time, lifecycle>>
    /\ UNCHANGED <<now, environ, app_config>>

\* ConstructStorage with a cache that also remembers a call that raised.
ConstructStorage_caches_failure(r, construct) ==
    /\ reqs[r].pc = "constructing"
    /\ LET out == get_file_storage_service(file_storage_provider, construct)
           inst == constructed + 1
       IN  IF out.kind = "raised"
           THEN /\ Finish(r, reqs[r], <<>>, out)
                /\ cache' = lru_cache_store(cache, inst)
                /\ UNCHANGED <<constructed, svcInstances>>
           ELSE /\ constructed' = inst
                /\ cache' = lru_cache_store(cache, inst)
                /\ svcInstances' = svcInstances
                                    \cup {get_picture_service(inst).file_storage_service}
                /\ reqs' = [reqs EXCEPT ![r] = [@ EXCEPT !.pc = "handler"]]
                /\ UNCHANGED completed
    /\ UNCHANGED <<file_storage_provider, start_time, lifecycle>>
    /\ UNCHANGED <<now, environ, app_config>>

\* The call of get_file_storage_service made on a cache miss ends. When it
\* raises nothing is cached and the request fails; when it returns a new
\* client, the cache keeps it unless another call stored one meanwhile, and
\* this request's PictureService gets the client this call built.
ConstructStorage(r, construct) ==
    /\ reqs[r].pc = "constructing"
    /\ LET out == get_file_storage_service(file_storage_provider, construct)
           inst == constructed + 1
       IN  IF out.kind = "raised"
           THEN /\ Finish(r, reqs[r], <<>>, out)
                /\ UNCHANGED <<cache, constructed, svcInstances>>
           ELSE /\ constructed' = inst
                /\ cache' = lru_cache_store(cache, inst)
                /\ svcInstances' = svcInstances
                                    \cup {get_picture_service(inst).file_storage_service}
                /\ reqs' = [reqs EXCEPT ![r] = [@ EXCEPT !.pc = "handler"]]
                /\ UNCHANGED completed
    /\ UNCHANGED <<file_storage_provider, start_time, lifecycle>>
    /\ UNCHANGED <<now, environ, app_config>>

\* The route handler closing the file only after a successful read (no
\* finally).
UploadHandler_close_on_success(r, filename, content_type, read) ==
    /\ reqs[r].pc = "handler"
    /\ LET err == upload_read(filename, read)
           readCall == [Call("file.read", NoneVal, NoneVal, <<>>)
                           EXCEPT !.raised = IF read.raised THEN <<read.exc>> ELSE <<>>]
           slot == [reqs[r] EXCEPT
                       !.file_content = read.contents,
                       !.original_filename = filename,
                       !.content_type = content_type,
                       !.target_bucket = uploader_user_id,
                       !.calls = IF err # <<>>
                                 THEN <<readCall>>
                                 ELSE <<readCall,
                                        Call("file.close", NoneVal, NoneVal, <<>>)>>]
       IN  IF err # <<>>
           THEN Finish(r, slot, slot.calls, Raised(err[1]))
           ELSE EnterUploadFile(r, slot)
    /\ UNCHANGED <<file_storage_provider, cache, constructed, svcInstances,
                   start_time, lifecycle>>
    /\ UNCHANGED <<now, environ, app_config>>

\* The route handler upload, from its entry to the first await inside
\* picture_service.upload_file: read the file, close it (finally), and call
\* the service with the bucket uploader_user_id.
UploadHandler(r, filename, content_type, read) ==
    /\ reqs[r].pc = "handler"
    /\ LET err == upload_read(filename, read)
           slot == [reqs[r] EXCEPT
                       !.file_content = read.contents,
                       !.original_filename = filename,
                       !.content_type = content_type,
                       !.target_bucket = uploader_user_id,
                       !.calls = <<[Call("file.read", NoneVal, NoneVal, <<>>)
                                       EXCEPT !.raised =
                                           IF read.raised THEN <<read.exc>> ELSE <<>>],
                                   Call("file.close", NoneVal, NoneVal, <<>>)>>]
       IN  IF err # <<>>
           THEN Finish(r, slot, slot.calls, Raised(err[1]))
           ELSE EnterUploadFile(r, slot)
    /\ UNCHANGED <<file_storage_provider, cache, constructed, svcInstances,
                   start_time, lifecycle>>
    /\ UNCHANGED <<now, environ, app_config>>

\* GET /api/health is answered.
Health ==
    /\ lifecycle # "stopped"
    /\ completed' = <<Finished([Idle EXCEPT !.entry = "health"], <<>>,
                               [kind |-> "answered"], <<health>>)>>
    /\ UNCHANGED <<reqs, file_storage_provider, cache, constructed,
                   svcInstances, start_time, lifecycle>>
    /\ UNCHANGED <<now, environ, app_config>>

\* Startup that does not record the start time.
Startup_without_start_time ==
    /\ lifecycle = "created"
    /\ lifecycle' = "running"
    /\ UNCHANGED <<reqs, completed, file_storage_provider, cache, constructed,
                   svcInstances, start_time, now, environ, app_config>>

\* main.py lifespan, startup part: records the (timezone-aware) start time.
Startup ==
    /\ lifecycle = "created"
    /\ lifecycle' = "running"
    /\ start_time' = [kind |-> "aware", t |-> now]
    /\ UNCHANGED now
    /\ UNCHANGED <<reqs, completed, file_storage_provider, cache, constructed,
                   svcInstances>>
    /\ UNCHANGED <<environ, app_config>>

\* Values a harness stores in app.state.start_time without running the
\* lifespan: an aware datetime, or the string 'invalid'.
StartTimeValues == {[kind |-> "aware", t |-> 0], [kind |-> "invalid", t |-> 0]}

\* app.state.start_time is assigned directly, before any startup.
SetStartTime(value) ==
    /\ lifecycle = "created"
    /\ start_time' = value
    /\ UNCHANGED <<reqs, completed, file_storage_provider, cache, constructed,
                   svcInstances, lifecycle>>
    /\ UNCHANGED <<now, environ, app_config>>

\* Every value app.state.start_time can be given: None, aware and naive
\* datetimes (at tick 0 or MaxTicks), the string 'invalid', the string ''.
AllStartTimeValues ==
    {[kind |-> k, t |-> 0] : k \in {"none", "invalid", "empty"}}
    \cup {[kind |-> k, t |-> t] : k \in {"aware", "naive"}, t \in {0, MaxTicks}}

\* The name and version the info endpoint reports (routes.py NAME, VERSION).
NAME == StrOf(app_config.name)
VERSION == StrOf(app_config.version)

\* GET /api/info is answered; the observation keeps the start_time, the clock
\* and the lifecycle phase the request was served in.
Info ==
    /\ lifecycle # "stopped"
    /\ LET outcome == version(start_time, now, NAME, VERSION)
       IN  completed' = <<Finished([Idle EXCEPT !.entry = "info"], <<>>, outcome,
                                   <<general_response(outcome)>>)
                          @@ [start_time |-> start_time, now |-> now,
                              lifecycle |-> lifecycle]>>
    /\ UNCHANGED <<reqs, file_storage_provider, cache, constructed,
                   svcInstances, start_time, lifecycle, now, environ, app_config>>

\* Twelve hours pass.
Tick ==
    /\ now < MaxTicks
    /\ now' = now + 1
    /\ UNCHANGED <<reqs, completed, file_storage_provider, cache, constructed,
                   svcInstances, start_time, lifecycle, environ, app_config>>

\* main.py lifespan, shutdown part: only logs; no request is accepted after it.
Shutdown ==
    /\ lifecycle = "running"
    /\ lifecycle' = "stopped"
    /\ UNCHANGED <<reqs, completed, file_storage_provider, cache, constructed,
                   svcInstances, start_time>>
    /\ UNCHANGED <<now, environ, app_config>>

\* ------------------------------------------------------- specifications
\* The application: routed uploads, the general endpoints and the lifespan.
Next ==
    \/ \E r \in Reqs : PostPicture(r)
    \/ \E r \in Reqs, construct \in ConstructOutcomes : ConstructStorage(r, construct)
    \/ \E r \in Reqs, filename \in RouteFilenames, content_type \in ContentTypes,
          read \in ReadOutcomes : UploadHandler(r, filename, content_type, read)
    \/ \E r \in Reqs, cls \in StorageErrorClasses : StorageUploadRaises(r, cls)
    \/ \E r \in Reqs :
          \E res \in UploadResults(file_data_of(reqs[r])), url \in UrlOutcomes :
             StorageUploadReturns(r, res, url)
    \/ Health
    \/ \E value \in StartTimeValues : SetStartTime(value)
    \/ Startup
    \/ Shutdown

Spec == Init /\ [][Next]_vars

\* PictureService on its own, called directly with a storage client given
\* to it, as the unit tests do.
NextService ==
    \/ \E r \in Reqs, file_content \in AllContents, original_filename \in Filenames,
          content_type \in ContentTypes, target_bucket \in Buckets :
          CallUploadFile(r, file_content, original_filename, content_type, target_bucket)
    \/ \E r \in Reqs, cls \in StorageErrorClasses : StorageUploadRaises(r, cls)
    \/ \E r \in Reqs :
          \E res \in UploadResults(file_data_of(reqs[r])), url \in UrlOutcomes :
             StorageUploadReturns(r, res, url)

\* The unit tests run with the default configuration.
InitService == Init /\ file_storage_provider = "minio"

SpecService == InitService /\ [][NextService]_vars

\* One routed upload at a time, with every content type a client can send.
NextUpload ==
    \/ PostPicture(1)
    \/ \E construct \in ConstructOutcomes : ConstructStorage(1, construct)
    \/ \E filename \in RouteFilenames, content_type \in AllContentTypes,
          read \in ReadOutcomes : UploadHandler(1, filename, content_type, read)
    \/ \E cls \in StorageErrorClasses : StorageUploadRaises(1, cls)
    \/ \E res \in UploadResults(file_data_of(reqs[1])), url \in UrlOutcomes :
          StorageUploadReturns(1, res, url)

SpecUpload == Init /\ [][NextUpload]_vars

\* Concurrent routed uploads told apart by their filenames and by what the
\* storage client answers each of them.
ConcurrentFilenames == {Str(<<"a">>), Str(<<"b">>)}

ConcurrentResults(file_data) ==
    {[object_name |-> Str(<<"k", n>>), etag |-> Str(<<"e", n>>),
      size |-> file_data.size] : n \in {"1", "2"}}

ConcurrentUrlOutcomes ==
    {[raised |-> FALSE, url |-> Url("http", "h", p), exc |-> Raise("None", "")] :
        p \in {"/k1", "/k2"}}

ConcurrentReadOutcomes == {read \in ReadOutcomes : ~read.raised /\ read.contents # <<>>}

NextConcurrent ==
    \/ \E r \in Reqs : PostPicture(r)
    \/ \E r \in Reqs, construct \in ConstructOutcomes : ConstructStorage(r, construct)
    \/ \E r \in Reqs, filename \in ConcurrentFilenames, content_type \in ContentTypes,
          read \in ConcurrentReadOutcomes : UploadHandler(r, filename, content_type, read)
    \/ \E r \in Reqs, cls \in {"FileStorageError"} : StorageUploadRaises(r, cls)
    \/ \E r \in Reqs :
          \E res \in ConcurrentResults(file_data_of(reqs[r])),
             url \in ConcurrentUrlOutcomes : StorageUploadReturns(r, res, url)

SpecConcurrent == InitService /\ [][NextConcurrent]_vars

\* Environments the general endpoints are served under: defaults, or NAME and
\* VERSION set.
GeneralEnvirons ==
    {[NoEnviron EXCEPT !["NAME"] = n, !["VERSION"] = v] :
        n \in {<<>>, <<"pics">>}, v \in {<<>>, <<"2.0.0">>}}

InitGeneral ==
    /\ reqs = [r \in Reqs |-> Idle]
    /\ completed = <<>>
    /\ file_storage_provider = "minio"
    /\ cache = <<>>
    /\ constructed = 0
    /\ svcInstances = {}
    /\ start_time = [kind |-> "absent", t |-> 0]
    /\ lifecycle = "created"
    /\ now = 0
    /\ environ \in GeneralEnvirons
    /\ app_config = AppConfig(environ)

\* The general endpoints, the lifespan and the clock.
NextGeneral ==
    \/ Health
    \/ Info
    \/ Tick
    \/ \E value \in AllStartTimeValues : SetStartTime(value)
    \/ Startup
    \/ Shutdown

SpecGeneral == InitGeneral /\ [][NextGeneral]_vars

\* ------------------------------------------------------------ configuration
\* One value a test sets each environment variable to.
EnvCustom ==
    [n \in EnvNames |->
        CASE n = "API_VERSION" -> "v2"
          [] n = "NAME" -> "image-processor"
          [] n = "DESCRIPTION" -> "Image processing service"
          [] n = "VERSION" -> "2.5.0"
          [] n = "LOG_LEVEL" -> "DEBUG"
          [] n = "SWAGGER_ENABLED" -> "False"
          [] n = "FILE_STORAGE_PROVIDER" -> "aws"
          [] OTHER -> "custom"]

\* The variables behind the configuration fields of ConfigFields.
ConfigEnvNames ==
    {"API_VERSION", "NAME", "DESCRIPTION", "VERSION", "LOG_LEVEL",
     "SWAGGER_ENABLED", "FILE_STORAGE_PROVIDER"}

\* Environments: any subset of ConfigEnvNames set to its custom value.
ConfigEnvirons ==
    {[n \in EnvNames |-> IF n \in set THEN <<EnvCustom[n]>> ELSE <<>>] :
        set \in SUBSET ConfigEnvNames}

\* Values a caller tries to assign to a configuration field.
AttrValues == {"new-value"}

\* AppConfig() is constructed again from the environment (a test fixture).
NewAppConfig ==
    /\ app_config' = AppConfig(environ)
    /\ completed' = <<[entry |-> "AppConfig", environ |-> environ]>>
    /\ UNCHANGED <<reqs, file_storage_provider, cache, constructed,
                   svcInstances, start_time, lifecycle, now, environ>>

\* A caller reads app_config.<field>.
GetAttr(field) ==
    /\ completed' = <<[entry |-> "getattr", field |-> field,
                       outcome |-> AppConfig_getattr(app_config, field)]>>
    /\ UNCHANGED <<reqs, file_storage_provider, cache, constructed,
                   svcInstances, start_time, lifecycle, now, environ, app_config>>

\* A caller attempts app_config.<field> = value.
SetAttr(field, value) ==
    /\ LET res == AppConfig_setattr(app_config, field, value)
       IN  /\ app_config' = res.config
           /\ completed' = <<[entry |-> "setattr", field |-> field,
                              value |-> value, before |-> app_config,
                              outcome |-> res.outcome]>>
    /\ UNCHANGED <<reqs, file_storage_provider, cache, constructed,
                   svcInstances, start_time, lifecycle, now, environ>>

InitConfig ==
    /\ reqs = [r \in Reqs |-> Idle]
    /\ completed = <<>>
    /\ file_storage_provider = "minio"
    /\ cache = <<>>
    /\ constructed = 0
    /\ svcInstances = {}
    /\ start_time = [kind |-> "absent", t |-> 0]
    /\ lifecycle = "created"
    /\ now = 0
    /\ environ \in ConfigEnvirons
    /\ app_config = AppConfig(environ)

NextConfig ==
    \/ NewAppConfig
    \/ \E field \in ConfigFields : GetAttr(field)
    \/ \E field \in ConfigFields, value \in AttrValues : SetAttr(field, value)

\* The configuration object on its own, as the configuration tests use it.
SpecConfig == InitConfig /\ [][NextConfig]_vars

\* ------------------------------------------------------------------- units
\* Messages and causes errors are created with.
ErrorMessages ==
    {Msg("Generic picture error"), Msg("Upload failed"), Msg("Invalid input"),
     Msg(""), Msg("Storage unavailable"),
     MsgF("Failed: ", <<>>, Raise("OSError", "File not found"))}

ErrorCauses ==
    {<<>>, <<Raise("ValueError", "Original error")>>,
     <<Raise("OSError", "File not found")>>, <<Raise("TypeError", "Incorrect type")>>,
     <<InvalidInputError(Msg("Invalid input"), <<>>)>>,
     <<PictureUploadError(Msg("Upload failed"), <<Raise("OSError", "File not found")>>)>>}

PictureErrorClasses == {"PictureError", "PictureUploadError", "InvalidInputError"}

\* cls(message, original_exception) for a class of errors.py.
NewErrorOf(cls, message, original_exception) ==
    CASE cls = "PictureError" -> PictureError(message, original_exception)
      [] cls = "PictureUploadError" -> PictureUploadError(message, original_exception)
      [] cls = "InvalidInputError" -> InvalidInputError(message, original_exception)

\* An error of errors.py is created.
NewError(cls, message, original_exception) ==
    /\ completed' = <<[entry |-> "error", cls |-> cls, message |-> message,
                       original_exception |-> original_exception,
                       error |-> NewErrorOf(cls, message, original_exception)]>>
    /\ UNCHANGED <<reqs, file_storage_provider, cache, constructed,
                   svcInstances, start_time, lifecycle, now, environ, app_config>>

\* Values passed as file_storage_service: None or a storage service.
StorageServiceValues == {NoStorageService, 1, 2}

\* PictureService(file_storage_service) is called.
NewPictureService(file_storage_service) ==
    /\ completed' = <<[entry |-> "PictureService",
                       file_storage_service |-> file_storage_service,
                       outcome |-> PictureService(file_storage_service)]>>
    /\ UNCHANGED <<reqs, file_storage_provider, cache, constructed,
                   svcInstances, start_time, lifecycle, now, environ, app_config>>

NextUnits ==
    \/ \E cls \in PictureErrorClasses, message \in ErrorMessages,
          original_exception \in ErrorCauses :
          NewError(cls, message, original_exception)
    \/ \E file_storage_service \in StorageServiceValues :
          NewPictureService(file_storage_service)

\* The error classes and the PictureService constructor on their own.
SpecUnits == InitService /\ [][NextUnits]_vars

\* A value that is not a str and not None: the int n.
IntVal(n) == [none |-> TRUE, chars |-> <<>>, int |-> n]

\* The characters of the strings the validator is called with.
SchemaChars == {" ", "\t", "\n", "a"}

\* Every string over SchemaChars of at most MaxStrLen characters.
SchemaStrings == UNION {[1..n -> SchemaChars] : n \in 0..MaxStrLen}

\* The arguments of check_not_whitespace_only: strings, None and an int.
SchemaValues == {Str(cs) : cs \in SchemaStrings} \cup {NoneVal, IntVal(123)}

\* check_not_whitespace_only(value) is called.
CheckNotWhitespaceOnly(value) ==
    /\ completed' =
           <<[entry |-> "check_not_whitespace_only",
              value |-> value,
              outcome |->
                  IF check_not_whitespace_only(value).raised
                  THEN Raised(Raise("ValueError",
                                    "Field cannot consist only of whitespace."))
                  ELSE [kind |-> "returned",
                        value |-> check_not_whitespace_only(value).value]]>>
    /\ UNCHANGED <<reqs, file_storage_provider, cache, constructed,
                   svcInstances, start_time, lifecycle, now, environ, app_config>>

\* Values passed for the str fields and the size of an UploadResponseDTO.
DTOFieldValues ==
    {Str(<<"a">>), Str(<<" ", "a">>), Str(<<" ">>), Str(<<>>), NoneVal}

DTOSizes == {-1, 0, 1}

\* UploadResponseDTO(original_filename=..., object_name=..., file_url=...,
\* size=..., etag=...) is called, as at the end of upload_file.
NewUploadResponseDTO(original_filename, object_name, file_url, size, etag) ==
    /\ completed' =
           <<[entry |-> "UploadResponseDTO",
              original_filename |-> original_filename,
              object_name |-> object_name,
              file_url |-> file_url,
              size |-> size,
              etag |-> etag,
              outcome |-> upload_file_return(original_filename, object_name,
                                             file_url, size, etag)]>>
    /\ UNCHANGED <<reqs, file_storage_provider, cache, constructed,
                   svcInstances, start_time, lifecycle, now, environ, app_config>>

NextSchemas ==
    \/ \E value \in SchemaValues : CheckNotWhitespaceOnly(value)
    \/ \E original_filename \in DTOFieldValues, object_name \in DTOFieldValues,
          file_url \in UrlValues, size \in DTOSizes, etag \in DTOFieldValues :
          NewUploadResponseDTO(original_filename, object_name, file_url, size, etag)

\* The validator and the UploadResponseDTO constructor on their own.
SpecSchemas == InitService /\ [][NextSchemas]_vars

\* ------------------------------------------------------------ observations
\* The most recently answered call or request (when there is one).
Last == completed[1]

\* A call of PictureService.upload_file has just ended.
UploadFileEnded ==
    /\ completed # <<>>
    /\ CountCalls(Last.calls, "PictureService.upload_file") > 0

\* upload_file has just returned a response.
UploadFileReturned == UploadFileEnded /\ Last.outcome.kind = "returned"

\* upload_file has just raised.
UploadFileRaised == UploadFileEnded /\ Last.outcome.kind = "raised"

\* A request to POST /api/v1/pictures has just been answered.
RouteAnswered == completed # <<>> /\ Last.entry = "route"

\* The entries of the last call log for the two storage operations.
UploadCall == Last.calls[FirstCall(Last.calls, "storage.upload_file")]
UrlCall == Last.calls[FirstCall(Last.calls, "storage.get_file_url")]

StorageUploadCalled == CountCalls(Last.calls, "storage.upload_file") > 0
StorageUrlCalled == CountCalls(Last.calls, "storage.get_file_url") > 0

\* ------------------------------------------------------------------ claims

\* C1: upload_file fails with an InvalidInputError whenever the file content
\* is empty, the original filename is missing (None or empty) or the target
\* bucket is missing (None or empty), whatever the other arguments are.
C1_InvalidInputRejected ==
    (/\ UploadFileEnded
     /\ \/ Last.file_content = <<>>
        \/ Last.original_filename.none \/ Last.original_filename.chars = <<>>
        \/ Last.target_bucket.none \/ Last.target_bucket.chars = <<>>)
    => /\ Last.outcome.kind = "raised"
       /\ Last.outcome.exc.cls = "InvalidInputError"

\* C1 witness: a call with content and a filename but an empty bucket name has
\* ended with an InvalidInputError.
C1_Witness ==
    /\ UploadFileRaised
    /\ Last.file_content # <<>>
    /\ Last.original_filename = Str(<<"a">>)
    /\ Last.target_bucket = Str(<<>>)
    /\ Last.outcome.exc.cls = "InvalidInputError"

\* C2 as stated: whenever upload_file returns a response, its size is the
\* number of bytes of the content passed in, and its object_name and etag are
\* the key and ETag the storage client returned.
C2_SizeIsContentLength ==
    UploadFileReturned =>
        /\ Last.outcome.dto.size = Len(Last.file_content)
        /\ Last.outcome.dto.object_name = UploadCall.triple[1].object_name
        /\ Last.outcome.dto.etag = UploadCall.triple[1].etag

\* C2 amended: whenever upload_file returns a response, its size, object_name
\* and etag are the size, key and ETag the storage client's upload call
\* returned.
C2_SizeKeyEtagFromStorage ==
    UploadFileReturned =>
        /\ Last.outcome.dto.size = UploadCall.triple[1].size
        /\ Last.outcome.dto.object_name = UploadCall.triple[1].object_name
        /\ Last.outcome.dto.etag = UploadCall.triple[1].etag

\* C2 witness: a response was returned for an upload whose storage client
\* reported a size other than the content's length.
C2_Witness ==
    /\ UploadFileReturned
    /\ UploadCall.triple[1].size # Len(Last.file_content)
    /\ Last.outcome.dto.size = UploadCall.triple[1].size

\* C3 as stated: every exception the storage client raises during the upload
\* call or the URL-resolution call reaches the caller as a PictureUploadError
\* whose original_exception is that exception.
C3_StorageErrorsBecomeUploadErrors ==
    (/\ UploadFileEnded
     /\ \/ StorageUploadCalled /\ UploadCall.raised # <<>>
        \/ StorageUrlCalled /\ UrlCall.raised # <<>>)
    => /\ Last.outcome.kind = "raised"
       /\ Last.outcome.exc.cls = "PictureUploadError"
       /\ Last.outcome.exc.original_exception =
              IF UploadCall.raised # <<>> THEN UploadCall.raised ELSE UrlCall.raised

\* C3 amended: an exception the storage client raises during the upload call
\* reaches the caller as an InvalidInputError when it is a ValueError that is
\* no FileStorageError, and as a PictureUploadError otherwise; an exception
\* raised during the URL-resolution call always reaches the caller as a
\* PictureUploadError; in each case original_exception is the exception the
\* storage client raised.
C3_StorageErrorsWrapped ==
    /\ (UploadFileEnded /\ StorageUploadCalled /\ UploadCall.raised # <<>>)
       => /\ Last.outcome.kind = "raised"
          /\ Last.outcome.exc.cls =
                 IF /\ IsInstance(UploadCall.raised[1], "ValueError")
                    /\ ~IsInstance(UploadCall.raised[1], "FileStorageError")
                 THEN "InvalidInputError" ELSE "PictureUploadError"
          /\ Last.outcome.exc.original_exception = UploadCall.raised
    /\ (UploadFileEnded /\ StorageUrlCalled /\ UrlCall.raised # <<>>)
       => /\ Last.outcome.kind = "raised"
          /\ Last.outcome.exc.cls = "PictureUploadError"
          /\ Last.outcome.exc.original_exception = UrlCall.raised

\* C3 witness: get_file_url raised a ValueError and the caller got a
\* PictureUploadError carrying it.
C3_Witness ==
    /\ UploadFileRaised
    /\ StorageUrlCalled
    /\ UrlCall.raised # <<>>
    /\ UrlCall.raised[1].cls = "ValueError"
    /\ Last.outcome.exc.cls = "PictureUploadError"
    /\ Last.outcome.exc.original_exception = UrlCall.raised

\* C4: no raw exception escapes upload_file: every call either returns an
\* UploadResponseDTO or raises an InvalidInputError or a PictureUploadError.
C4_NoRawException ==
    UploadFileRaised =>
        Last.outcome.exc.cls \in {"InvalidInputError", "PictureUploadError"}

\* C5: a POST /api/v1/pictures whose uploaded file has empty contents is
\* answered with HTTP 400, the empty-file condition being signalled as an
\* InvalidInputError with the message 'Cannot upload an empty file.'.
C5_EmptyFileIs400 ==
    (/\ RouteAnswered
     /\ CountCalls(Last.calls, "file.read") > 0
     /\ Last.calls[FirstCall(Last.calls, "file.read")].raised = <<>>
     /\ Last.file_content = <<>>)
    => /\ Last.http[1].status = 400
       /\ Last.outcome.kind = "raised"
       /\ Last.outcome.exc.cls = "InvalidInputError"
       /\ MsgContains(Last.outcome.exc.message, "Cannot upload an empty file.")

\* C6: at the route layer every InvalidInputError produced while handling
\* POST /api/v1/pictures yields status 400 and every PictureUploadError
\* yields status 500.
C6_ErrorKindToStatus ==
    (RouteAnswered /\ Last.outcome.kind = "raised") =>
        /\ Last.outcome.exc.cls = "InvalidInputError" => Last.http[1].status = 400
        /\ Last.outcome.exc.cls = "PictureUploadError" => Last.http[1].status = 500

C8_FilenameAndUrl ==
    UploadFileReturned =>
        /\ Last.outcome.dto.original_filename = Last.original_filename
        /\ CountCalls(Last.calls, "storage.get_file_url") = 1
        /\ FirstCall(Last.calls, "storage.upload_file")
               < FirstCall(Last.calls, "storage.get_file_url")
        /\ UrlCall.bucket = Last.target_bucket
        /\ UrlCall.object_name = UploadCall.triple[1].object_name
        /\ Last.outcome.dto.file_url = HttpUrl(UrlCall.url[1])

\* C8 as stated: the response's file_url is, value for value, the URL that
\* get_file_url returned.
C8_FileUrlIsReturnedUrl ==
    UploadFileReturned =>
        /\ Last.outcome.dto.original_filename = Last.original_filename
        /\ StorageUrlCalled
        /\ Last.outcome.dto.file_url = UrlCall.url[1]

\* C8 witness: a response was returned whose file_url comes from the URL
\* get_file_url answered for the bucket and the stored key.
C8_Witness ==
    /\ UploadFileReturned
    /\ Last.entry = "direct"
    /\ UrlCall.bucket = Str(<<"b">>)
    /\ UrlCall.object_name = Str(<<"k">>)
    /\ UrlCall.url = <<Url("http", "H", "")>>
    /\ Last.outcome.dto.file_url = Url("http", "h", "/")

\* C9: the storage client is a singleton: over any sequence of requests,
\* overlapping ones included, it is constructed at most once, and every
\* PictureService receives that one cached instance.
C9_StorageClientSingleton ==
    /\ constructed <= 1
    /\ \A inst \in svcInstances : cache = <<inst>>

\* C10: GET /api/health is answered with status 200 and body {status: 'UP'}
\* in every reachable state of the service.
C10_HealthUp ==
    (completed # <<>> /\ Last.entry = "health") =>
        /\ Last.http[1].status = 200
        /\ Last.http[1].body = [status |-> Str(<<"U", "P">>)]

\* C10 witness: health was answered before startup, with a malformed start
\* time stored, after an upload request had a storage client constructed.
C10_Witness ==
    /\ completed # <<>>
    /\ Last.entry = "health"
    /\ Last.http[1].status = 200
    /\ lifecycle = "created"
    /\ start_time.kind = "invalid"
    /\ constructed > 0
    /\ \E r \in Reqs : reqs[r].pc = "uploading"

\* GET /api/info has just been answered.
InfoAnswered == completed # <<>> /\ Last.entry = "info"

\* The uptime in the body of the last info response.
InfoUptime == Last.http[1].body.uptime

\* The last info response has status 200 and the configured name and version.
InfoOkWithNameAndVersion ==
    /\ Last.http[1].status = 200
    /\ Last.http[1].body.name = StrOf(app_config.name)
    /\ Last.http[1].body.version = StrOf(app_config.version)

\* An uptime is the formatted duration of delta ticks: a day count and a time
\* of day below 24:00:00 that add up to delta ticks of twelve hours.
IsDurationOf(uptime, delta) ==
    /\ uptime.kind = "duration"
    /\ uptime.hours \in 0..23 /\ uptime.minutes \in 0..59 /\ uptime.seconds \in 0..59
    /\ uptime.days * 86400 + uptime.hours * 3600 + uptime.minutes * 60
           + uptime.seconds = delta * 43200

C12_InfoNeverFails ==
    InfoAnswered =>
        /\ Last.http[1].status = 200
        /\ Last.outcome.kind = "returned"
        /\ (InfoUptime.kind = "text" => InfoUptime.text # "")

\* C13 as stated: when start_time holds a value that is set and is not a
\* datetime, GET /api/info returns 200 with uptime exactly
\* 'Error: Invalid start_time format in app state'.
C13_InvalidStartTime ==
    (InfoAnswered /\ Last.start_time.kind \in {"invalid", "empty"}) =>
        /\ Last.http[1].status = 200
        /\ InfoUptime = UptimeText("Error: Invalid start_time format in app state")

\* C13 amended: when start_time holds a truthy value that is not a datetime,
\* GET /api/info returns 200 with uptime exactly the error sentinel.
C13_TruthyInvalidStartTime ==
    (InfoAnswered /\ Last.start_time.kind = "invalid") =>
        /\ Last.http[1].status = 200
        /\ InfoUptime = UptimeText("Error: Invalid start_time format in app state")

\* C13 witness: info was answered while start_time held the string 'invalid'.
C13_Witness ==
    /\ InfoAnswered
    /\ Last.start_time.kind = "invalid"
    /\ start_time.kind = "invalid"
    /\ Last.http[1].status = 200
    /\ InfoUptime.kind = "text"

\* C14: every GET /api/info served between the lifespan's startup and its
\* shutdown reports a formatted duration, never 'Not yet started' and never
\* an 'Error:' string.
C14_UptimeAfterStartup ==
    (InfoAnswered /\ Last.lifecycle = "running") =>
        /\ Last.http[1].status = 200
        /\ InfoUptime.kind = "duration"
        /\ InfoUptime.days >= 0

\* C14 witness: info was served after startup, half a day after the start
\* time that startup recorded.
C14_Witness ==
    /\ InfoAnswered
    /\ Last.lifecycle = "running"
    /\ lifecycle = "running"
    /\ Last.now = Last.start_time.t + 1
    /\ InfoUptime.kind = "duration"
    /\ InfoUptime.hours = 12

\* What a configuration field holds according to the environment: the
\* variable's value when it is set (parsed as a bool for swagger_enabled),
\* the documented default otherwise.
ExpectedConfigValue(field) ==
    CASE field = "api_version" -> getenv(environ, "API_VERSION", "v1")
      [] field = "name" -> getenv(environ, "NAME", "picture-service")
      [] field = "description" ->
             getenv(environ, "DESCRIPTION", "REST API Service for Pictures")
      [] field = "version" -> getenv(environ, "VERSION", "1.0.0")
      [] field = "log_level" -> getenv(environ, "LOG_LEVEL", "INFO")
      [] field = "swagger_enabled" ->
             IF environ["SWAGGER_ENABLED"] = <<>>
             THEN TRUE ELSE environ["SWAGGER_ENABLED"][1] = "True"
      [] field = "file_storage_provider" ->
             getenv(environ, "FILE_STORAGE_PROVIDER", "minio")

\* C15: every attempt to assign to a field of an AppConfig instance fails with
\* an error and leaves every field's value unchanged.
C15_ConfigReadOnly ==
    (completed # <<>> /\ Last.entry = "setattr") =>
        /\ Last.outcome.kind = "raised"
        /\ app_config = Last.before
        /\ \A f \in ConfigFields :
               AppConfig_getattr(app_config, f) = AppConfig_getattr(Last.before, f)

\* C15 witness: with NAME set in the environment, an assignment to name has
\* been attempted.
C15_Witness ==
    /\ completed # <<>>
    /\ Last.entry = "setattr"
    /\ Last.field = "name"
    /\ Last.outcome.kind = "raised"
    /\ environ["NAME"] # <<>>
    /\ app_config.name = "image-processor"

\* C16: each of the seven configuration fields reads as its default when its
\* environment variable is unset and as the variable's value when it is set.
C16_ConfigFromEnvironment ==
    (completed # <<>> /\ Last.entry = "getattr") =>
        Last.outcome = Returned(ExpectedConfigValue(Last.field))

\* C17: an error of errors.py carries the message it was created with, also
\* as its str(), and the cause it was given (none when none was given);
\* PictureUploadError and InvalidInputError are PictureErrors and neither is
\* an instance of the other.
C17_ErrorsCarryMessageAndCause ==
    (completed # <<>> /\ Last.entry = "error") =>
        /\ Last.error.cls = Last.cls
        /\ Last.error.message = Last.message
        /\ str_exception(Last.error) = Last.message
        /\ Last.error.original_exception = Last.original_exception
        /\ IsInstance(Last.error, "PictureError")
        /\ IsInstance(Last.error, "Exception")
        /\ Last.cls = "PictureUploadError" => ~IsInstance(Last.error, "InvalidInputError")
        /\ Last.cls = "InvalidInputError" => ~IsInstance(Last.error, "PictureUploadError")
        /\ Last.cls = "PictureError" =>
               /\ ~IsInstance(Last.error, "InvalidInputError")
               /\ ~IsInstance(Last.error, "PictureUploadError")

\* C17 witness: an InvalidInputError was created around a TypeError.
C17_Witness ==
    /\ completed # <<>>
    /\ Last.entry = "error"
    /\ Last.cls = "InvalidInputError"
    /\ Last.error.original_exception = <<Raise("TypeError", "Incorrect type")>>
    /\ str_exception(Last.error) = Msg("Invalid input")

\* C18: PictureService(None) fails with a ValueError whose message contains
\* 'FileStorageService dependency is required', and a PictureService that is
\* constructed holds the storage service it was given.
C18_StorageServiceRequired ==
    (completed # <<>> /\ Last.entry = "PictureService") =>
        IF Last.file_storage_service = NoStorageService
        THEN /\ Last.outcome.kind = "raised"
             /\ Last.outcome.exc.cls = "ValueError"
             /\ MsgContains(str_exception(Last.outcome.exc),
                            "FileStorageService dependency is required.")
        ELSE /\ Last.outcome.kind = "ok"
             /\ Last.outcome.file_storage_service = Last.file_storage_service

\* C18 witness: PictureService(None) was called and raised.
C18_Witness ==
    /\ completed # <<>>
    /\ Last.entry = "PictureService"
    /\ Last.file_storage_service = NoStorageService
    /\ Last.outcome.kind = "raised"

\* A request has just failed in get_file_storage_service, before its handler
\* was entered.
StorageServiceResolutionFailed ==
    /\ RouteAnswered
    /\ Last.calls = <<>>
    /\ Last.outcome.kind = "raised"

\* C19: get_file_storage_service raises a ValueError when the configured
\* provider is not supported (anything other than 'minio') and a RuntimeError
\* when initialising the storage service fails.
C19_DocumentedErrors ==
    (StorageServiceResolutionFailed /\ file_storage_provider # ABSENT) =>
        IF file_storage_provider = "minio"
        THEN IsInstance(Last.outcome.exc, "RuntimeError")
        ELSE IsInstance(Last.outcome.exc, "ValueError")

\* The handler of the last routed upload read a non-empty file.
RouteReadNonEmptyFile ==
    /\ RouteAnswered
    /\ CountCalls(Last.calls, "file.read") > 0
    /\ Last.calls[FirstCall(Last.calls, "file.read")].raised = <<>>
    /\ Last.file_content # <<>>

\* C20: the upload endpoint rejects no content type: a routed upload of a
\* non-empty file reaches the storage client with the content type the client
\* sent, whatever it is, and fails only if a storage call fails or the
\* response DTO is invalid; when it succeeds the status is 201.
C20_ContentTypePassedThrough ==
    RouteReadNonEmptyFile =>
        /\ StorageUploadCalled
        /\ UploadCall.file_data[1].content_type = Last.content_type
        /\ Last.outcome.kind = "returned" => Last.http[1].status = 201
        /\ Last.outcome.kind = "raised" =>
               \/ \E i \in 1..Len(Last.calls) : Last.calls[i].raised # <<>>
               \/ Last.outcome.exc.cls = "ValidationError"

\* C20 witness: an upload sent as 'application/invalid' was stored under that
\* content type and answered with 201.
C20_Witness ==
    /\ RouteReadNonEmptyFile
    /\ Last.content_type = Str(<<"application/invalid">>)
    /\ UploadCall.file_data[1].content_type = Str(<<"application/invalid">>)
    /\ Last.outcome.kind = "returned"
    /\ Last.http[1].status = 201

\* The inputs of a call of upload_file fail its validation.
InvalidUploadInput(slot) ==
    \/ slot.file_content = <<>>
    \/ slot.original_filename.none \/ slot.original_filename.chars = <<>>
    \/ slot.target_bucket.none \/ slot.target_bucket.chars = <<>>

\* C21: when upload_file fails validation (empty content, missing filename or
\* missing bucket) neither the storage upload nor get_file_url is called for
\* that request; no request with such input is ever waiting for the storage.
C21_ValidationBeforeStorage ==
    /\ (UploadFileEnded /\ InvalidUploadInput(Last)) =>
           /\ CountCalls(Last.calls, "storage.upload_file") = 0
           /\ CountCalls(Last.calls, "storage.get_file_url") = 0
           /\ Last.outcome.kind = "raised"
    /\ \A r \in Reqs : reqs[r].pc = "uploading" => ~InvalidUploadInput(reqs[r])

\* C21 witness: a call with content and a bucket but no filename has ended
\* without any storage call.
C21_Witness ==
    /\ UploadFileRaised
    /\ Last.file_content # <<>>
    /\ Last.original_filename = NoneVal
    /\ Last.target_bucket = Str(<<"b">>)
    /\ Len(Last.calls) = 1

\* C22: within one upload_file request get_file_url is called only after the
\* storage upload has returned, with the request's target bucket and the key
\* that upload returned, and never when the upload raised.
C22_StorageCallOrder ==
    UploadFileEnded =>
        /\ StorageUrlCalled =>
               /\ StorageUploadCalled
               /\ FirstCall(Last.calls, "storage.upload_file")
                      < FirstCall(Last.calls, "storage.get_file_url")
               /\ UploadCall.raised = <<>>
               /\ UploadCall.triple # <<>>
               /\ UrlCall.bucket = Last.target_bucket
               /\ UrlCall.object_name = UploadCall.triple[1].object_name
        /\ (StorageUploadCalled /\ UploadCall.raised # <<>>) => ~StorageUrlCalled

\* C22 witness: the upload returned key 'k' and get_file_url, called next with
\* bucket 'b' and that key, raised.
C22_Witness ==
    /\ UploadFileRaised
    /\ StorageUrlCalled
    /\ UploadCall.triple # <<>>
    /\ UrlCall.bucket = Str(<<"b">>)
    /\ UrlCall.object_name = Str(<<"k">>)
    /\ UrlCall.raised # <<>>

\* C23: nothing is retried: a request calls the storage upload at most once
\* and get_file_url at most once, and a storage call that raises is the
\* request's last call and ends it with an error.
C23_NoRetry ==
    /\ \A r \in Reqs : CountCalls(reqs[r].calls, "storage.upload_file") <= 1
                       /\ CountCalls(reqs[r].calls, "storage.get_file_url") = 0
    /\ UploadFileEnded =>
           /\ CountCalls(Last.calls, "storage.upload_file") <= 1
           /\ CountCalls(Last.calls, "storage.get_file_url") <= 1
           /\ CountCalls(Last.calls, "PictureService.upload_file") = 1
           /\ \A i \in 1..Len(Last.calls) :
                  Last.calls[i].raised # <<>> =>
                      /\ i = Len(Last.calls)
                      /\ Last.outcome.kind = "raised"

\* C23 witness: the storage upload raised and the request ended with an error
\* after that single call.
C23_Witness ==
    /\ UploadFileRaised
    /\ CountCalls(Last.calls, "storage.upload_file") = 1
    /\ UploadCall.raised # <<>>
    /\ ~StorageUrlCalled

\* The handler of the last routed upload was entered (the file was read).
RouteHandlerEntered == RouteAnswered /\ CountCalls(Last.calls, "file.read") = 1

\* C24: in the upload route handler the file is closed on every path, right
\* after the read and before the picture service is called; when the read
\* raised or the contents are empty, upload_file is never called.
C24_FileClosed ==
    /\ RouteHandlerEntered =>
           /\ CountCalls(Last.calls, "file.close") = 1
           /\ FirstCall(Last.calls, "file.read") < FirstCall(Last.calls, "file.close")
           /\ CountCalls(Last.calls, "PictureService.upload_file") > 0 =>
                  FirstCall(Last.calls, "file.close")
                      < FirstCall(Last.calls, "PictureService.upload_file")
           /\ (Last.calls[FirstCall(Last.calls, "file.read")].raised # <<>>
               \/ Last.file_content = <<>>) =>
                  /\ CountCalls(Last.calls, "PictureService.upload_file") = 0
                  /\ Last.outcome.kind = "raised"
    /\ \A r \in Reqs : reqs[r].pc = "uploading" /\ reqs[r].entry = "route" =>
           FirstCall(reqs[r].calls, "file.close") \in
               1..(FirstCall(reqs[r].calls, "PictureService.upload_file") - 1)

\* C24 witness: reading the uploaded file raised, the file was closed and the
\* picture service was not called.
C24_Witness ==
    /\ RouteHandlerEntered
    /\ Last.calls[1].op = "file.read"
    /\ Last.calls[1].raised # <<>>
    /\ Last.calls[2].op = "file.close"
    /\ Len(Last.calls) = 2

\* C25: concurrent uploads do not interfere: the response of a request carries
\* that request's own filename and the key, ETag, size and URL the storage
\* client returned to that request's own calls, and a request waiting for the
\* storage holds its own file data.
C25_NoInterference ==
    /\ (RouteAnswered /\ Last.outcome.kind = "returned") =>
           /\ Last.outcome.dto.original_filename = Last.original_filename
           /\ UploadCall.file_data[1].filename = Last.original_filename
           /\ UploadCall.file_data[1].content_bytes = Last.file_content
           /\ Last.outcome.dto.object_name = UploadCall.triple[1].object_name
           /\ Last.outcome.dto.etag = UploadCall.triple[1].etag
           /\ Last.outcome.dto.size = UploadCall.triple[1].size
           /\ Last.outcome.dto.file_url = HttpUrl(UrlCall.url[1])
           /\ Last.http[1].body = Last.outcome.dto
    /\ \A r \in Reqs : reqs[r].pc = "uploading" =>
           reqs[r].calls[Len(reqs[r].calls)].file_data[1].filename
               = reqs[r].original_filename

\* C25 witness: the upload of 'a' was answered with key k1 and URL /k2 while
\* the upload of 'b' was still waiting for the storage client.
C25_Witness ==
    /\ RouteAnswered
    /\ Last.outcome.kind = "returned"
    /\ Last.outcome.dto.original_filename = Str(<<"a">>)
    /\ Last.outcome.dto.object_name = Str(<<"k", "1">>)
    /\ Last.outcome.dto.file_url = Url("http", "h", "/k2")
    /\ \E r \in Reqs : /\ reqs[r].pc = "uploading"
                       /\ reqs[r].original_filename = Str(<<"b">>)

\* The storage client's upload_file returned to the ended call, so the object
\* is in the bucket; upload_file makes no call that removes it again.
ObjectStored == StorageUploadCalled /\ UploadCall.triple # <<>>

\* C26: a failed upload is atomic with respect to storage: when get_file_url
\* fails after the object was stored, upload_file does not end with the object
\* still stored and the caller told that the upload failed.
C26_FailedUploadAtomic ==
    (UploadFileRaised /\ StorageUrlCalled /\ UrlCall.raised # <<>>) => ~ObjectStored

\* C27: a ValueError raised by the storage client's upload call ends
\* upload_file with an InvalidInputError whose message starts with 'Invalid
\* file provided for upload', followed by the text of the ValueError, and whose
\* original_exception is that ValueError; get_file_url is not called.
C27_ValueErrorIsInvalidInput ==
    (/\ UploadFileEnded
     /\ StorageUploadCalled
     /\ UploadCall.raised # <<>>
     /\ UploadCall.raised[1].cls = "ValueError")
    => /\ Last.outcome.kind = "raised"
       /\ Last.outcome.exc.cls = "InvalidInputError"
       /\ Last.outcome.exc.message.text = "Invalid file provided for upload: "
       /\ Last.outcome.exc.message.inner = <<UploadCall.raised[1].message>>
       /\ Last.outcome.exc.original_exception = <<UploadCall.raised[1]>>
       /\ ~StorageUrlCalled

\* C27 witness: the storage upload raised a ValueError and the call ended with
\* an InvalidInputError.
C27_Witness ==
    /\ UploadFileRaised
    /\ StorageUploadCalled
    /\ UploadCall.raised # <<>>
    /\ UploadCall.raised[1].cls = "ValueError"
    /\ Last.outcome.exc.cls = "InvalidInputError"

\* C28: the validation checks have a fixed precedence: empty content is
\* reported whatever the filename and the bucket are, a missing filename is
\* reported whenever the content is not empty, whatever the bucket is, and a
\* missing bucket only when content and filename are both present.
C28_ValidationPrecedence ==
    (UploadFileEnded /\ InvalidUploadInput(Last)) =>
        /\ Last.outcome.kind = "raised"
        /\ Last.outcome.exc.message =
               IF Last.file_content = <<>>
               THEN Msg("Cannot upload an empty file.")
               ELSE IF Last.original_filename.none \/ Last.original_filename.chars = <<>>
               THEN Msg("Original filename is required for upload.")
               ELSE Msg("Target bucket must be specified.")

\* C28 witness: a call with empty content, no filename and no bucket has ended
\* with the error for the empty content.
C28_Witness ==
    /\ UploadFileRaised
    /\ Last.file_content = <<>>
    /\ Last.original_filename = NoneVal
    /\ Last.target_bucket = NoneVal
    /\ Last.outcome.exc.message = Msg("Cannot upload an empty file.")

\* C29: a failed construction of the storage client is not cached: the step on
\* which get_file_storage_service raises leaves the cache as it was, so that a
\* request arriving while nothing is cached calls get_file_storage_service
\* again; the cache holds a client exactly when a construction has succeeded,
\* it keeps that client, and a request arriving from then on gets the cached
\* client without constructing one.
C29_FailureNotCached ==
    [][/\ (cache # <<>>) = (constructed > 0)
       /\ cache # <<>> => cache' = cache
       /\ \A r \in Reqs :
              /\ (reqs[r].pc = "constructing" /\ reqs'[r].pc = "idle") =>
                     /\ cache' = cache
                     /\ constructed' = constructed
              /\ (reqs[r].pc = "idle" /\ reqs'[r].pc # "idle") =>
                     reqs'[r].pc = IF cache = <<>> THEN "constructing" ELSE "handler"]_vars

\* C29 witness: one request has failed in get_file_storage_service, nothing of
\* it is cached, and the construction made for another request has succeeded
\* and is cached.
C29_Witness ==
    /\ StorageServiceResolutionFailed
    /\ constructed = 1
    /\ cache = <<1>>
    /\ \E r \in Reqs : reqs[r].pc = "handler"

\* A str with at least one character that is not a space, a tab or a newline.
NonBlankStr(value) ==
    /\ ~value.none
    /\ \E i \in 1..Len(value.chars) : value.chars[i] \notin {" ", "\t", "\n"}

====
